---- MODULE Spec2Model ----
(***************************************************************************)
(* State-machine model of vector<T> (src/vector.h): containers own a raw   *)
(* storage region of the heap, a size and a capacity; every element        *)
(* construction, assignment and destruction is modelled on single slots.   *)
(***************************************************************************)
EXTENDS Integers, FiniteSets, Sequences, TLC

\* ---------------------------------------------------------------- bounds
\* The largest request (in slots) operator new satisfies, per specification:
\* any larger request throws.
MaxCap == 3                       \* Spec: one vector, every operation
TwoCap == 2                       \* SpecTwo: two vectors
PushCap == 8                      \* SpecPush: push_back alone
\* Number of storage regions the heap can hand out at the same time.
MaxRegions == 3

\* ------------------------------------------------------------- universe
Values == {1, 2}                  \* values of the element type T
Raw == 0                          \* a slot that holds no live T object
nullptr == 0                      \* the null storage pointer
Regions == 1..MaxRegions          \* non-null storage pointers
Vecs == {"a", "b"}                \* the program's vector variables
AllVecs == Vecs \cup {"copy"}     \* plus operator='s local `copy`

\* Places where an operation can throw: <<kind, index>>.
\*   alloc  - operator new              ctor   - T(e), the inserted element
\*   copy k - T(src[k]) in relocation   tmp    - T copy = data_[from]
\*   assign k - the assignment whose target is data_[k]
NoFail == <<"none", 0>>

VARIABLES
    limit,      \* the largest request operator new satisfies (never changes)
    vecs,       \* AllVecs -> [exists, data, size, capacity]
    heap,       \* Regions -> [alloc, slots], slots : 0..n-1 -> {Raw} \cup Values
    leaked,     \* the last operation took the storage of a live T object away
    dd,         \* the last operation destructed a slot holding no live object
    df,         \* the last operation deleted a region that was not allocated
    lost,       \* the last operation returned leaving a region nobody owns
    pushed,     \* Vecs -> [tracked, seq]: the push_backs since vector()
    last        \* [op, vec, st]: the operation of the last step and its outcome

vars == <<limit, vecs, heap, leaked, dd, df, lost, pushed, last>>

NoVec == [exists |-> FALSE, data |-> nullptr, size |-> 0, capacity |-> 0]
EmptyVec == [exists |-> TRUE, data |-> nullptr, size |-> 0, capacity |-> 0]
FreeRegion == [alloc |-> FALSE, slots |-> [i \in {} |-> Raw]]
Untracked == [tracked |-> FALSE, seq |-> <<>>]

Max(x, y) == IF x >= y THEN x ELSE y

\* The part of the state the container code reads and writes, as an
\* operation finds it: the records of what an operation did wrong start empty.
World ==
    [limit |-> limit, vecs |-> vecs, heap |-> heap,
     leaked |-> FALSE, dd |-> FALSE, df |-> FALSE]

\* --------------------------------------------------- memory primitives
SlotsOf(w, p) == w.heap[p].slots
IsLive(w, p, i) == SlotsOf(w, p)[i] # Raw

\* operator new(n * sizeof(T)): the address returned.
NewPtr(w) ==
    CHOOSE r \in Regions :
        /\ ~w.heap[r].alloc
        /\ \A q \in Regions : ~w.heap[q].alloc => r <= q

CanAlloc(w, n) == n <= w.limit /\ \E r \in Regions : ~w.heap[r].alloc

OperatorNew(w, n) ==
    [w EXCEPT !.heap[NewPtr(w)] =
        [alloc |-> TRUE, slots |-> [i \in 0..(n - 1) |-> Raw]]]

\* operator delete(p): a no-op on nullptr.
OperatorDelete(w, p) ==
    IF p = nullptr THEN w
    ELSE [w EXCEPT !.heap[p] = FreeRegion,
                   !.df = @ \/ ~w.heap[p].alloc,
                   !.leaked = @ \/ \E i \in DOMAIN SlotsOf(w, p) : IsLive(w, p, i)]

\* new(p + i) T(v)
Construct(w, p, i, v) ==
    [w EXCEPT !.heap[p].slots[i] = v,
              !.leaked = @ \/ IsLive(w, p, i)]

\* p[i].~T()
Destroy(w, p, i) ==
    [w EXCEPT !.heap[p].slots[i] = Raw,
              !.dd = @ \/ ~IsLive(w, p, i)]

\* p[i] = v; no T object comes to life when the slot holds none.
Assign(w, p, i, v) ==
    IF IsLive(w, p, i) THEN [w EXCEPT !.heap[p].slots[i] = v] ELSE w

\* The value read from p[i].
Read(w, p, i, g) == IF IsLive(w, p, i) THEN SlotsOf(w, p)[i] ELSE g[i]

Thrown(w, st) == [w |-> w, st |-> st]
Done(w) == [w |-> w, st |-> "ok"]

\* destroy_all(ptr, size)
DestroyAll(w, p, size) ==
    IF size = 0 THEN w
    ELSE [w EXCEPT
            !.heap[p].slots = [i \in DOMAIN @ |-> IF i < size THEN Raw ELSE @[i]],
            !.dd = @ \/ \E i \in 0..(size - 1) : ~IsLive(w, p, i)]

\* The loop of copy_and_construct from index i on, with its catch block.
RECURSIVE CopyLoop(_, _, _, _, _, _, _)
CopyLoop(w, dst, src, i, size, f, g) ==
    IF i >= size THEN Done(w)
    ELSE IF f = <<"copy", i>> THEN Thrown(DestroyAll(w, dst, i), "copy")
    ELSE CopyLoop(Construct(w, dst, i, Read(w, src, i, g)), dst, src, i + 1, size, f, g)

\* copy_and_construct(dst, src, size)
CopyAndConstruct(w, dst, src, size, f, g) == CopyLoop(w, dst, src, 0, size, f, g)

\* ------------------------------------------------- private members
\* vector::copy_to_ptr(capacity, ptr)
CopyToPtr(w, c, capacity, ptr, f, g) ==
    LET v == w.vecs[c]
        r == CopyAndConstruct(w, ptr, v.data, v.size, f, g)
        \* std::swap(ptr, data_); capacity_ = capacity;
        w1 == [r.w EXCEPT !.vecs[c].data = ptr, !.vecs[c].capacity = capacity]
        \* destroy_all(ptr, size_); operator delete(ptr);
        w2 == OperatorDelete(DestroyAll(w1, v.data, v.size), v.data)
    IN  IF r.st # "ok"
        THEN Thrown([w2 EXCEPT !.vecs[c].size = 0], r.st)
        ELSE Done(w2)

\* resize with a slip: the size == 0 branch forgets capacity_ = 0.
ResizeKeepsCapacity(w, c, size, f, g) ==
    IF size = 0
    THEN Done([OperatorDelete(w, w.vecs[c].data) EXCEPT !.vecs[c].data = nullptr])
    ELSE IF f = <<"alloc", 0>> \/ ~CanAlloc(w, size) THEN Thrown(w, "alloc")
    ELSE CopyToPtr(OperatorNew(w, size), c, size, NewPtr(w), f, g)

\* vector::resize(size)
Resize(w, c, size, f, g) ==
    IF size = 0
    THEN Done([OperatorDelete(w, w.vecs[c].data) EXCEPT
                  !.vecs[c].data = nullptr, !.vecs[c].capacity = 0])
    ELSE IF f = <<"alloc", 0>> \/ ~CanAlloc(w, size) THEN Thrown(w, "alloc")
    ELSE CopyToPtr(OperatorNew(w, size), c, size, NewPtr(w), f, g)

\* The for loop of move_element from index i down to to + 1.
RECURSIVE MoveLoop(_, _, _, _, _, _)
MoveLoop(w, p, i, to, f, g) ==
    IF i <= to THEN Done(w)
    ELSE IF f = <<"assign", i>> THEN Thrown(w, "assign")
    ELSE MoveLoop(Assign(w, p, i, Read(w, p, i - 1, g)), p, i - 1, to, f, g)

\* move_element with a slip: the final data_[to] = copy is forgotten.
MoveElementDropsCopy(w, c, from, to, f, g) ==
    IF from = to THEN Done(w)
    ELSE IF f = <<"tmp", 0>> THEN Thrown(w, "tmp")
    ELSE MoveLoop(w, w.vecs[c].data, from, to, f, g)

\* vector::move_element(from, to), from >= to
MoveElement(w, c, from, to, f, g) ==
    IF from = to THEN Done(w)
    ELSE IF f = <<"tmp", 0>> THEN Thrown(w, "tmp")
    ELSE LET p == w.vecs[c].data
             copy == Read(w, p, from, g)
             r == MoveLoop(w, p, from, to, f, g)
         IN  IF r.st # "ok" THEN r
             ELSE IF f = <<"assign", to>> THEN Thrown(r.w, "assign")
             ELSE Done(Assign(r.w, p, to, copy))

\* vector::resize_and_insert(size, i, e)
ResizeAndInsert(w, c, size, i, e, f, g) ==
    IF f = <<"alloc", 0>> \/ ~CanAlloc(w, size) THEN Thrown(w, "alloc")
    ELSE LET ptr == NewPtr(w)
             size_ == w.vecs[c].size
             w1 == OperatorNew(w, size)
         IN  IF f = <<"ctor", 0>> THEN Thrown(w1, "ctor")
             ELSE LET r == CopyToPtr(Construct(w1, ptr, size_, e), c, size, ptr, f, g)
                  IN  IF r.st # "ok"
                      THEN Thrown(Destroy(r.w, ptr, size_), r.st)
                      ELSE MoveElement([r.w EXCEPT !.vecs[c].size = @ + 1],
                                       c, size_, i, f, g)

\* ---------------------------------------------------- public members
\* insert with a slip: full storage grows by one slot instead of doubling.
InsertGrowsByOne(w, c, pos_i, e, f, g) ==
    LET v == w.vecs[c]
    IN  IF v.size = v.capacity
        THEN ResizeAndInsert(w, c, v.capacity + 1, pos_i, e, f, g)
        ELSE IF f = <<"ctor", 0>> THEN Thrown(w, "ctor")
        ELSE MoveElement([Construct(w, v.data, v.size, e) EXCEPT !.vecs[c].size = @ + 1],
                         c, v.size, pos_i, f, g)

\* vector::insert(pos, e), pos given as the index pos - begin()
Insert(w, c, pos_i, e, f, g) ==
    LET v == w.vecs[c]
    IN  IF v.size = v.capacity
        THEN ResizeAndInsert(w, c, Max(1, v.capacity * 2), pos_i, e, f, g)
        ELSE IF f = <<"ctor", 0>> THEN Thrown(w, "ctor")
        ELSE MoveElement([Construct(w, v.data, v.size, e) EXCEPT !.vecs[c].size = @ + 1],
                         c, v.size, pos_i, f, g)

\* The while loop of reserve_if_needed: new_capacity doubled until it is
\* at least size_ + additional_capacity.
RECURSIVE Doubled(_, _)
Doubled(new_capacity, needed) ==
    IF new_capacity < needed THEN Doubled(new_capacity * 2, needed) ELSE new_capacity

\* The capacity reserve_if_needed(additional_capacity) asks reserve for.
GrowthTarget(w, c, additional_capacity) ==
    Doubled(Max(1, w.vecs[c].capacity), w.vecs[c].size + additional_capacity)

\* An iterator: a pointer into a storage region, as region and offset.
\* vector::begin()
Begin(w, c) == [ptr |-> w.vecs[c].data, off |-> 0]

\* it + n
Plus(it, n) == [it EXCEPT !.off = @ + n]

\* What insert(begin() + pos_i, e) returns, in the world w it leaves:
\* return begin() + pos_i.
InsertReturn(w, c, pos_i) == Plus(Begin(w, c), pos_i)

\* push_back with a slip: inserts at begin() instead of end().
PushBackAtFront(w, c, e, f, g) == Insert(w, c, 0, e, f, g)

\* vector::push_back(e)
PushBack(w, c, e, f, g) == Insert(w, c, w.vecs[c].size, e, f, g)

\* vector::front(), size_ > 0
Front(w, c) == SlotsOf(w, w.vecs[c].data)[0]

\* vector::back(), size_ > 0
Back(w, c) == SlotsOf(w, w.vecs[c].data)[w.vecs[c].size - 1]

\* vector::operator[](i), i < size_
At(w, c, i) == SlotsOf(w, w.vecs[c].data)[i]

\* vector::pop_back(), size_ > 0
PopBack(w, c) ==
    LET v == w.vecs[c]
    IN  Done([Destroy(w, v.data, v.size - 1) EXCEPT !.vecs[c].size = @ - 1])

\* reserve with a slip: asks resize for one slot more than requested.
ReserveOneMore(w, c, size, f, g) ==
    IF size > w.vecs[c].capacity THEN Resize(w, c, size + 1, f, g) ELSE Done(w)

\* vector::reserve(size)
Reserve(w, c, size, f, g) ==
    IF size > w.vecs[c].capacity THEN Resize(w, c, size, f, g) ELSE Done(w)

\* shrink_to_fit with a slip: an empty vector keeps its storage.
ShrinkToFitKeepsEmpty(w, c, f, g) ==
    IF w.vecs[c].capacity # w.vecs[c].size /\ w.vecs[c].size # 0
    THEN Resize(w, c, w.vecs[c].size, f, g)
    ELSE Done(w)

\* vector::shrink_to_fit()
ShrinkToFit(w, c, f, g) ==
    IF w.vecs[c].capacity # w.vecs[c].size
    THEN Resize(w, c, w.vecs[c].size, f, g)
    ELSE Done(w)

\* clear with a slip: gives the storage back as well.
ClearFreesStorage(w, c) ==
    Done([OperatorDelete(DestroyAll(w, w.vecs[c].data, w.vecs[c].size), w.vecs[c].data)
             EXCEPT !.vecs[c].size = 0, !.vecs[c].data = nullptr,
                    !.vecs[c].capacity = 0])

\* vector::clear()
Clear(w, c) ==
    Done([DestroyAll(w, w.vecs[c].data, w.vecs[c].size) EXCEPT !.vecs[c].size = 0])

\* vector::swap(other)
Swap(w, c, other) ==
    [w EXCEPT !.vecs[c].data = w.vecs[other].data,
              !.vecs[other].data = w.vecs[c].data,
              !.vecs[c].size = w.vecs[other].size,
              !.vecs[other].size = w.vecs[c].size,
              !.vecs[c].capacity = w.vecs[other].capacity,
              !.vecs[other].capacity = w.vecs[c].capacity]

\* The for loop of erase from index i on.
RECURSIVE EraseLoop(_, _, _, _, _, _, _)
EraseLoop(w, c, first_i, first_after_i, i, f, g) ==
    LET p == w.vecs[c].data
        to == first_i + i - first_after_i
    IN  IF i >= w.vecs[c].size THEN Done(w)
        ELSE IF f = <<"assign", to>> THEN Thrown(w, "assign")
        ELSE EraseLoop(Destroy(Assign(w, p, to, Read(w, p, i, g)), p, i),
                       c, first_i, first_after_i, i + 1, f, g)

\* vector::erase(first, last), given as the indices first - begin(), last - begin()
Erase(w, c, first_i, first_after_i, f, g) ==
    LET r == EraseLoop(w, c, first_i, first_after_i, first_after_i, f, g)
    IN  IF r.st # "ok" THEN r
        ELSE Done([r.w EXCEPT !.vecs[c].size = @ - (first_after_i - first_i)])

\* vector::erase(pos)
ErasePos(w, c, pos_i, f, g) == Erase(w, c, pos_i, pos_i + 1, f, g)

\* it = insert(begin() + pos_i, e); erase(it): two calls in a row, the
\* second made when the first returns.  f, g are the throw point and the
\* oracle of the insert, f2, g2 those of the erase.
InsertThenErase(w, c, pos_i, e, f, g, f2, g2) ==
    LET r == Insert(w, c, pos_i, e, f, g)
    IN  IF r.st # "ok" THEN r
        ELSE ErasePos(r.w, c, InsertReturn(r.w, c, pos_i).off, f2, g2)

\* The copy constructor with a slip: adopts the source's storage
\* instead of copying it.
CopyConstructShallow(w, c, other, f, g) ==
    Done([w EXCEPT !.vecs[c] = w.vecs[other]])

\* The copy constructor with a slip: allocates and records the source's
\* capacity instead of its size.
CopyConstructKeepsCapacity(w, c, other, f, g) ==
    LET v == w.vecs[other]
    IN  IF v.size # 0
        THEN IF f = <<"alloc", 0>> \/ ~CanAlloc(w, v.capacity) THEN Thrown(w, "alloc")
             ELSE LET ptr == NewPtr(w)
                      r == CopyAndConstruct(OperatorNew(w, v.capacity), ptr, v.data, v.size, f, g)
                  IN  IF r.st # "ok" THEN r
                      ELSE Done([r.w EXCEPT !.vecs[c] =
                                    [exists |-> TRUE, data |-> ptr,
                                     size |-> v.size, capacity |-> v.capacity]])
        ELSE Done([w EXCEPT !.vecs[c] = EmptyVec])

\* vector::vector(vector const& v); on a throw the object never exists.
CopyConstruct(w, c, other, f, g) ==
    LET v == w.vecs[other]
    IN  IF v.size # 0
        THEN IF f = <<"alloc", 0>> \/ ~CanAlloc(w, v.size) THEN Thrown(w, "alloc")
             ELSE LET ptr == NewPtr(w)
                      r == CopyAndConstruct(OperatorNew(w, v.size), ptr, v.data, v.size, f, g)
                  IN  IF r.st # "ok" THEN r
                      ELSE Done([r.w EXCEPT !.vecs[c] =
                                    [exists |-> TRUE, data |-> ptr,
                                     size |-> v.size, capacity |-> v.size]])
        ELSE Done([w EXCEPT !.vecs[c] = EmptyVec])

\* vector::~vector()
Destructor(w, c) ==
    LET v == w.vecs[c]
    IN  [OperatorDelete(DestroyAll(w, v.data, v.size), v.data) EXCEPT !.vecs[c] = NoVec]

\* operator= with a slip: empties *this before it copies other.
CopyAssignClearsFirst(w, c, other, f, g) ==
    LET r == CopyConstruct(Clear(w, c).w, "copy", other, f, g)
    IN  IF r.st # "ok" THEN r
        ELSE Done(Destructor(Swap(r.w, c, "copy"), "copy"))

\* vector::operator=(other): vector<T> copy(other); swap(copy); ~copy
CopyAssign(w, c, other, f, g) ==
    LET r == CopyConstruct(w, "copy", other, f, g)
    IN  IF r.st # "ok" THEN r
        ELSE Done(Destructor(Swap(r.w, c, "copy"), "copy"))

\* operator[](i) = x, i < size_
Write(w, c, i, x) == Done(Assign(w, w.vecs[c].data, i, x))

\* ------------------------------------------------------------ actions
\* What reading a slot that holds no live object yields is undefined: any
\* value of T.  An oracle gives that value per slot index; the oracles for an
\* operation that reads vector c differ only at the slots of c below size_
\* that hold no live object.
OraclesIn(w, c) ==
    LET D == {i \in 0..(w.vecs[c].size - 1) : ~IsLive(w, w.vecs[c].data, i)}
    IN  {[i \in 0..(w.limit - 1) |-> IF i \in D THEN h[i] ELSE 1] : h \in [D -> Values]}

OraclesFor(c) == OraclesIn(World, c)

\* The places where an operation can throw, given what it is called on.
\* Copying the elements of vector c into a new region: the allocation and
\* the copy of each element.
CopyFails(c) ==
    {NoFail} \cup (IF vecs[c].size = 0 THEN {}
                   ELSE {<<"alloc", 0>>} \cup {<<"copy", k>> : k \in 0..(vecs[c].size - 1)})

\* reserve(n): nothing when n <= capacity_, else as CopyFails (an empty
\* vector still allocates).
ReserveFails(c, n) ==
    IF n <= vecs[c].capacity THEN {NoFail} ELSE CopyFails(c) \cup {<<"alloc", 0>>}

\* shrink_to_fit(): nothing when capacity_ = size_.
ShrinkFails(c) ==
    IF vecs[c].capacity = vecs[c].size THEN {NoFail} ELSE CopyFails(c)

\* erase(first, last): the assignments to first, first + 1, ...
EraseFailsIn(w, c, first_i, first_after_i) ==
    {NoFail} \cup {<<"assign", k>> :
                      k \in first_i..(first_i + w.vecs[c].size - first_after_i - 1)}

EraseFails(c, first_i, first_after_i) == EraseFailsIn(World, c, first_i, first_after_i)

\* insert(pos, e): T(e); with full storage the allocation and the copy of
\* each element; below end() the temporary and the assignments of the rotation.
InsertFails(c, pos_i) ==
    {NoFail, <<"ctor", 0>>}
        \cup (IF vecs[c].size = vecs[c].capacity
              THEN CopyFails(c) \cup {<<"alloc", 0>>} ELSE {})
        \cup (IF pos_i < vecs[c].size
              THEN {<<"tmp", 0>>} \cup {<<"assign", k>> : k \in pos_i..vecs[c].size}
              ELSE {})

\* The regions of world w that are allocated and that no vector points to:
\* the program can never use or free them again.
Orphans(w) ==
    {r \in Regions : w.heap[r].alloc /\ \A c \in AllVecs : w.vecs[c].data # r}

\* Addresses are only ever compared for equality, so the regions are renamed
\* after every operation: the storage of "a" is region 1 and that of "b" the
\* next one (operator='s `copy` is gone by then).
Renamed(w) ==
    LET pa == w.vecs["a"].data
        pb == w.vecs["b"].data
        na == IF pa = nullptr THEN nullptr ELSE 1
        nb == IF pb = nullptr THEN nullptr ELSE IF pb = pa THEN na ELSE na + 1
    IN  [w EXCEPT !.vecs["a"].data = na,
                  !.vecs["b"].data = nb,
                  !.heap = [r \in Regions |->
                              IF r = na THEN w.heap[pa]
                              ELSE IF r = nb THEN w.heap[pb]
                              ELSE FreeRegion]]

\* The step taken by operation op on vector c with result r.  A region that
\* no vector points to any more is recorded in `lost` and then forgotten.
Step(r, op, c) ==
    /\ LET n == Renamed(r.w)
       IN  vecs' = n.vecs /\ heap' = n.heap
    /\ leaked' = r.w.leaked
    /\ dd' = r.w.dd
    /\ df' = r.w.df
    /\ lost' = (Orphans(r.w) # {})
    /\ last' = [op |-> op, vec |-> c, st |-> r.st]
    /\ limit' = limit

Untrack(S) == [d \in Vecs |-> IF d \in S THEN Untracked ELSE pushed[d]]

InitWith(l) ==
    /\ limit = l
    /\ vecs = [c \in AllVecs |-> IF c = "a" THEN EmptyVec ELSE NoVec]
    /\ heap = [r \in Regions |-> FreeRegion]
    /\ leaked = FALSE
    /\ dd = FALSE
    /\ df = FALSE
    /\ lost = FALSE
    /\ pushed = [c \in Vecs |-> IF c = "a" THEN [tracked |-> TRUE, seq |-> <<>>]
                                ELSE Untracked]
    /\ last = [op |-> "vector", vec |-> "a", st |-> "ok"]

Init == InitWith(MaxCap)
InitTwo == InitWith(TwoCap)
InitPush == InitWith(PushCap)

DoDefaultConstruct(c) ==
    /\ ~vecs[c].exists
    /\ Step(Done([World EXCEPT !.vecs[c] = EmptyVec]), "vector", c)
    /\ pushed' = [pushed EXCEPT ![c] = [tracked |-> TRUE, seq |-> <<>>]]

DoCopyConstruct(c, other) ==
    /\ ~vecs[c].exists /\ vecs[other].exists
    /\ \E f \in CopyFails(other), g \in OraclesFor(other) :
          Step(CopyConstruct(World, c, other, f, g), "copy_construct", c)
    /\ pushed' = Untrack({c})

DoCopyAssign(c, other) ==
    /\ vecs[c].exists /\ vecs[other].exists
    /\ \E f \in CopyFails(other), g \in OraclesFor(other) :
          Step(CopyAssign(World, c, other, f, g), "copy_assign", c)
    /\ pushed' = Untrack({c})

DoDestructor(c) ==
    /\ vecs[c].exists
    /\ Step(Done(Destructor(World, c)), "destructor", c)
    /\ pushed' = Untrack({c})

\* push_back(e) that throws at f (if it gets there) and reads g.
DoPushBackAt(c, e, f, g) ==
    /\ vecs[c].exists
    /\ LET r == PushBack(World, c, e, f, g)
       IN  /\ Step(r, "push_back", c)
           /\ pushed' = IF r.st = "ok" /\ pushed[c].tracked
                        THEN [pushed EXCEPT ![c].seq = Append(@, e)]
                        ELSE Untrack({c})

DoPushBack(c, e) ==
    \E f \in InsertFails(c, vecs[c].size), g \in OraclesFor(c) :
        DoPushBackAt(c, e, f, g)

DoPopBack(c) ==
    /\ vecs[c].exists /\ vecs[c].size > 0
    /\ Step(PopBack(World, c), "pop_back", c)
    /\ pushed' = Untrack({c})

\* insert(begin() + pos_i, e) that throws at f (if it gets there) and reads g.
DoInsertAt(c, pos_i, e, f, g) ==
    /\ vecs[c].exists /\ pos_i <= vecs[c].size
    /\ Step(Insert(World, c, pos_i, e, f, g), "insert", c)
    /\ pushed' = Untrack({c})

DoInsert(c, pos_i, e) ==
    \E f \in InsertFails(c, pos_i), g \in OraclesFor(c) :
        DoInsertAt(c, pos_i, e, f, g)

\* erase(first, last) that throws at f (if it gets there) and reads g.
DoEraseAt(c, first_i, first_after_i, f, g) ==
    /\ vecs[c].exists
    /\ first_i <= first_after_i /\ first_after_i <= vecs[c].size
    /\ Step(Erase(World, c, first_i, first_after_i, f, g), "erase", c)
    /\ pushed' = Untrack({c})

DoErase(c, first_i, first_after_i) ==
    \E f \in EraseFails(c, first_i, first_after_i), g \in OraclesFor(c) :
        DoEraseAt(c, first_i, first_after_i, f, g)

DoErasePos(c, pos_i) ==
    /\ vecs[c].exists /\ pos_i < vecs[c].size
    /\ \E f \in EraseFails(c, pos_i, pos_i + 1), g \in OraclesFor(c) :
          Step(ErasePos(World, c, pos_i, f, g), "erase_pos", c)
    /\ pushed' = Untrack({c})

DoInsertErase(c, pos_i, e) ==
    /\ vecs[c].exists /\ pos_i <= vecs[c].size
    /\ \E f \in InsertFails(c, pos_i), g \in OraclesFor(c) :
          LET r == Insert(World, c, pos_i, e, f, g)
          IN  \E f2 \in (IF r.st = "ok" THEN EraseFailsIn(r.w, c, pos_i, pos_i + 1)
                         ELSE {NoFail}),
                 g2 \in (IF r.st = "ok" THEN OraclesIn(r.w, c) ELSE {g}) :
                  Step(InsertThenErase(World, c, pos_i, e, f, g, f2, g2),
                       "insert_erase", c)
    /\ pushed' = Untrack({c})

DoClear(c) ==
    /\ vecs[c].exists
    /\ Step(Clear(World, c), "clear", c)
    /\ pushed' = Untrack({c})

\* reserve(n) that throws at f (if it gets there) and reads g.
DoReserveAt(c, n, f, g) ==
    /\ vecs[c].exists
    /\ Step(Reserve(World, c, n, f, g), "reserve", c)
    /\ pushed' = Untrack({c})

DoReserve(c, n) ==
    \E f \in ReserveFails(c, n), g \in OraclesFor(c) :
        DoReserveAt(c, n, f, g)

DoShrinkToFit(c) ==
    /\ vecs[c].exists
    /\ \E f \in ShrinkFails(c), g \in OraclesFor(c) :
          Step(ShrinkToFit(World, c, f, g), "shrink_to_fit", c)
    /\ pushed' = Untrack({c})

DoSwap(c, other) ==
    /\ vecs[c].exists /\ vecs[other].exists
    /\ Step(Done(Swap(World, c, other)), "swap", c)
    /\ pushed' = Untrack({c, other})

DoWrite(c, i, x) ==
    /\ vecs[c].exists /\ i < vecs[c].size
    /\ Step(Write(World, c, i, x), "write", c)
    /\ pushed' = Untrack({c})

\* The operations that change the elements or the storage of vector c.
Mutate(c) ==
    \/ \E e \in Values : DoPushBack(c, e)
    \/ DoPopBack(c)
    \/ \E pos_i \in 0..limit, e \in Values : DoInsert(c, pos_i, e)
    \/ \E first_i \in 0..limit, first_after_i \in 0..limit :
          DoErase(c, first_i, first_after_i)
    \/ \E pos_i \in 0..limit : DoErasePos(c, pos_i)
    \/ DoClear(c)
    \/ \E n \in 0..limit : DoReserve(c, n)
    \/ DoShrinkToFit(c)
    \/ \E i \in 0..limit, x \in Values : DoWrite(c, i, x)

\* Construction, assignment and destruction among the vectors of S.  The
\* swap of two different vectors is the one operator= makes with its `copy`.
Lifecycle(S) ==
    \E c \in S :
        \/ DoDefaultConstruct(c)
        \/ \E other \in S : DoCopyConstruct(c, other)
        \/ \E other \in S : DoCopyAssign(c, other)
        \/ DoSwap(c, c)
        \/ DoDestructor(c)

\* One vector and every operation on it (v = v, v.swap(v) included), and
\* an insert with the erase that undoes it.
Next ==
    \/ DoDefaultConstruct("a")
    \/ DoCopyAssign("a", "a")
    \/ DoSwap("a", "a")
    \/ DoDestructor("a")
    \/ Mutate("a")
    \/ \E pos_i \in 0..limit, e \in Values : DoInsertErase("a", pos_i, e)

Spec == Init /\ [][Next]_vars

\* Two vectors: "a" takes every operation, "b" is constructed, assigned
\* and destroyed.
NextTwo == Lifecycle(Vecs) \/ Mutate("a")

SpecTwo == InitTwo /\ [][NextTwo]_vars

\* push_back alone, from the empty vector.
NextPush == \E e \in Values : DoPushBack("a", e)

SpecPush == InitPush /\ [][NextPush]_vars

\* push_back and insert alone, from the empty vector.
NextGrow ==
    \/ \E e \in Values : DoPushBack("a", e)
    \/ \E pos_i \in 0..limit, e \in Values : DoInsert("a", pos_i, e)

SpecGrow == InitPush /\ [][NextGrow]_vars

\* ---------------------------------------------------------- properties
\* The slots of the storage of vector c, and what they hold.
Storage(c) == IF vecs[c].data = nullptr THEN <<>> ELSE heap[vecs[c].data].slots
Live(c) == {i \in DOMAIN Storage(c) : Storage(c)[i] # Raw}
Existing == {c \in AllVecs : vecs[c].exists}

\* The elements of vector c in index order, as a sequence.
Elems(c) == [k \in 1..vecs[c].size |-> At(World, c, k - 1)]

SizeWithinCapacity(c) == 0 <= vecs[c].size /\ vecs[c].size <= vecs[c].capacity
NullIffNoCapacity(c) == (vecs[c].capacity = 0) <=> (vecs[c].data = nullptr)
LivePrefix(c) == \A i \in 0..(vecs[c].capacity - 1) : (i < vecs[c].size) <=> (i \in Live(c))
NoFault == ~leaked /\ ~dd /\ ~df /\ ~lost
Failed == last.st # "ok"

\* C1: after any sequence of public operations, failing ones included, every
\* container has 0 <= size <= capacity, and capacity = 0 exactly when it
\* holds no storage (data_ is null).
C1_SizeCapacityInvariant ==
    \A c \in Existing : SizeWithinCapacity(c) /\ NullIffNoCapacity(c)

\* C1 witness: an operation has just failed on "a", which holds storage
\* with room to spare, while "b" holds no storage at all.
C1_Witness ==
    /\ Failed /\ last.vec = "a"
    /\ vecs["a"].exists /\ 0 < vecs["a"].size /\ vecs["a"].size < vecs["a"].capacity
    /\ vecs["b"].exists /\ vecs["b"].capacity = 0
    /\ C1_SizeCapacityInvariant

\* C2: between any two public operations, the slots [0, size) hold live
\* elements and the slots [size, capacity) hold none; in particular so after
\* erase(first, last).
C2_LivePrefixInvariant == \A c \in Existing : LivePrefix(c)

\* C3: every element constructed into a slot is destructed exactly once:
\* the live objects of a container's storage are as many as its size, none
\* is destructed twice and none loses its storage undestructed.
C3_ConstructedOnceDestructedOnce ==
    /\ \A c \in Existing : Cardinality(Live(c)) = vecs[c].size
    /\ ~leaked /\ ~dd

\* What C4 and C6 call the state of the container: size, capacity, storage
\* and element sequence.
SameContainer(c) ==
    /\ vecs'[c].size = vecs[c].size
    /\ vecs'[c].capacity = vecs[c].capacity
    /\ Storage(c)' = Storage(c)

\* C4: reserve and shrink_to_fit give the strong guarantee: when a copy fails
\* during relocation the new region is freed, nothing leaks and the
\* container is exactly what it was before the call.
C4_ReserveStrongGuarantee ==
    [][\A c \in Vecs :
          (last'.vec = c /\ last'.op \in {"reserve", "shrink_to_fit"} /\ last'.st # "ok")
              => (SameContainer(c) /\ NoFault')]_vars

\* C5: when the k-th element copy fails during copy construction, what was
\* constructed is destructed, the new storage is freed (no region is
\* leaked), and the source is unmodified; the new vector does not exist.
C5_CopyConstructStrongGuarantee ==
    [][\A c \in Vecs :
          (last'.vec = c /\ last'.op = "copy_construct" /\ last'.st = "copy")
              => (~lost' /\ ~leaked' /\ ~dd' /\ ~vecs'[c].exists
                  /\ \A d \in Vecs \ {c} : SameContainer(d))]_vars

\* C6: push_back gives the strong guarantee: whatever step fails, size,
\* capacity and element sequence are what they were before the call.
C6_PushBackStrongGuarantee ==
    [][\A c \in Vecs :
          (last'.vec = c /\ last'.op = "push_back" /\ last'.st # "ok")
              => (/\ vecs'[c].size = vecs[c].size
                  /\ vecs'[c].capacity = vecs[c].capacity
                  /\ Elems(c)' = Elems(c))]_vars

\* A container in a valid state after an operation: sizes in range, a live
\* prefix, and nothing leaked, lost, freed twice or destructed twice.
ValidVec(c) == SizeWithinCapacity(c) /\ NullIffNoCapacity(c) /\ LivePrefix(c)

\* C7: insert gives the weak guarantee at every failure point: called on a
\* valid container, a failing insert leaves it valid, leaks no region and no
\* element, and frees or destructs nothing twice.
C7_InsertWeakGuarantee ==
    [][\A c \in Vecs :
          (ValidVec(c) /\ last'.vec = c /\ last'.op = "insert" /\ last'.st # "ok")
              => (ValidVec(c)' /\ NoFault')]_vars

\* C8: when an assignment fails partway through erase(first, last) on a
\* valid container (after the first assignment), the container is left valid
\* with its length already reduced by last - first, nothing leaked and
\* nothing destructed twice.
C8_EraseWeakGuarantee ==
    [][\A first_i \in 0..limit, first_after_i \in 0..limit :
          \A f \in EraseFails("a", first_i, first_after_i), g \in OraclesFor("a") :
              (/\ ValidVec("a")
               /\ f[1] = "assign" /\ f[2] > first_i
               /\ DoEraseAt("a", first_i, first_after_i, f, g))
                  => (/\ vecs'["a"].size = vecs["a"].size - (first_after_i - first_i)
                      /\ ValidVec("a")'
                      /\ ~leaked' /\ ~dd')]_vars

\* The operations C9 calls mutating.
MutatingOps ==
    {"push_back", "insert", "erase", "erase_pos", "pop_back", "clear",
     "reserve", "shrink_to_fit", "write"}

\* C9: value semantics: two vectors never share storage, and a mutating
\* operation on one of them, failing or not, leaves the size, the capacity
\* and the storage of the other as they were.
C9_ValueSemantics ==
    [][/\ \A c \in Vecs, d \in Vecs :
             (c # d /\ vecs'[c].exists /\ vecs'[d].exists /\ vecs'[c].data # nullptr)
                 => vecs'[c].data # vecs'[d].data
       /\ \A c \in Vecs, d \in Vecs :
             (c # d /\ last'.vec = c /\ last'.op \in MutatingOps)
                 => (vecs'[d].exists = vecs[d].exists /\ SameContainer(d))]_vars

\* C9 witness: "a" and "b" both hold elements, in storage of their own, and
\* the insert that has just succeeded on "a" made "a" differ from "b".
C9_Witness ==
    /\ last = [op |-> "insert", vec |-> "a", st |-> "ok"]
    /\ vecs["a"].exists /\ vecs["b"].exists
    /\ vecs["b"].size > 0
    /\ vecs["a"].size = vecs["b"].size + 1
    /\ vecs["a"].data # vecs["b"].data

\* C10: n successful push_backs of x1..xn on an empty vector give size n,
\* element i equal to x(i+1), front() = x1 and back() = xn.
C10_PushBackSequence ==
    \A c \in Vecs :
        pushed[c].tracked =>
            /\ vecs[c].size = Len(pushed[c].seq)
            /\ \A i \in 0..(vecs[c].size - 1) : At(World, c, i) = pushed[c].seq[i + 1]
            /\ vecs[c].size > 0 =>
                  /\ Front(World, c) = pushed[c].seq[1]
                  /\ Back(World, c) = pushed[c].seq[vecs[c].size]

\* C10 witness: five push_backs of values that are not all equal went
\* through the reallocations 0 -> 1 -> 2 -> 4 -> 8.
C10_Witness ==
    /\ pushed["a"].tracked
    /\ pushed["a"].seq = <<1, 2, 2, 1, 2>>
    /\ vecs["a"].size = 5 /\ vecs["a"].capacity = 8

\* The slots [0, size) of vector c all hold live elements: c holds the
\* element sequence Elems(c).
HoldsSequence(c) == \A i \in 0..(vecs[c].size - 1) : i \in Live(c)

\* The sequence s (of length n) with v inserted before index p.
InsertedAt(s, n, p, v) ==
    [k \in 1..(n + 1) |-> IF k <= p THEN s[k] ELSE IF k = p + 1 THEN v ELSE s[k - 1]]

\* C11: a successful insert(p, v) on a container holding the sequence s
\* leaves s[0..p) ++ [v] ++ s[p..size) and a size greater by 1, with full
\* storage as with room to spare, and returns the position of index p in
\* the container's storage.
C11_InsertSequence ==
    [][(HoldsSequence("a") /\ last' = [op |-> "insert", vec |-> "a", st |-> "ok"]) =>
       \A pos_i \in 0..limit, e \in Values :
          \A f \in InsertFails("a", pos_i), g \in OraclesFor("a") :
              DoInsertAt("a", pos_i, e, f, g)
                  => (/\ vecs'["a"].size = vecs["a"].size + 1
                      /\ Elems("a")' = InsertedAt(Elems("a"), vecs["a"].size, pos_i, e)
                      /\ HoldsSequence("a")'
                      /\ LET w == Insert(World, "a", pos_i, e, f, g).w
                         IN  InsertReturn(w, "a", pos_i) =
                                 [ptr |-> w.vecs["a"].data, off |-> pos_i])]_vars

\* C11 witness: an insert has just succeeded and left three elements, not
\* all equal, in storage that is full.
C11_Witness ==
    /\ last = [op |-> "insert", vec |-> "a", st |-> "ok"]
    /\ vecs["a"].size = 3 /\ vecs["a"].capacity = 3
    /\ HoldsSequence("a")
    /\ Elems("a") = <<1, 2, 1>>

\* The sequence s (of length n) without its elements at the indices [a, b).
ErasedRange(s, n, a, b) ==
    [k \in 1..(n - (b - a)) |-> IF k <= a THEN s[k] ELSE s[k + (b - a)]]

\* C12: a successful erase(a, b), 0 <= a <= b <= size, on a valid container
\* holding the sequence s reduces the size by b - a and leaves the live
\* elements s[0..a) ++ s[b..size), in their original order.
C12_EraseSequence ==
    [][(ValidVec("a") /\ last' = [op |-> "erase", vec |-> "a", st |-> "ok"]) =>
       \A first_i \in 0..limit, first_after_i \in 0..limit :
          \A g \in OraclesFor("a") :
              DoEraseAt("a", first_i, first_after_i, NoFail, g)
                  => (/\ vecs'["a"].size = vecs["a"].size - (first_after_i - first_i)
                      /\ HoldsSequence("a")'
                      /\ Elems("a")' =
                            ErasedRange(Elems("a"), vecs["a"].size, first_i, first_after_i))]_vars

\* C13: on a valid container, insert(p, v) immediately followed by erase(p),
\* both successful, leaves the size and the sequence of live elements that
\* were there before the insert.
C13_InsertEraseRoundTrip ==
    [][(ValidVec("a") /\ last' = [op |-> "insert_erase", vec |-> "a", st |-> "ok"])
          => (/\ vecs'["a"].size = vecs["a"].size
              /\ HoldsSequence("a")'
              /\ Elems("a")' = Elems("a"))]_vars

\* The size of vector c is kept, and so is every live element below it.
KeepsElements(c) ==
    /\ vecs'[c].size = vecs[c].size
    /\ \A i \in 0..(vecs[c].size - 1) :
          i \in Live(c) => (i \in Live(c)' /\ Storage(c)'[i] = Storage(c)[i])
    /\ HoldsSequence(c) => (HoldsSequence(c)' /\ Elems(c)' = Elems(c))

\* C14: reserve(n) with n <= capacity changes nothing at all (no field of the
\* vector, no region of the heap); a successful reserve(n) with
\* n > capacity leaves capacity = n, the size as it was and the elements
\* equal and in the same order.
C14_ReserveCapacity ==
    [][(last'.op = "reserve" /\ last'.vec = "a") =>
       \A n \in 0..limit :
          \A f \in ReserveFails("a", n), g \in OraclesFor("a") :
              DoReserveAt("a", n, f, g)
                  => (/\ n <= vecs["a"].capacity =>
                            (/\ Reserve(World, "a", n, f, g) = Done(World)
                             /\ last'.st = "ok"
                             /\ SameContainer("a"))
                      /\ (n > vecs["a"].capacity /\ last'.st = "ok") =>
                            (/\ vecs'["a"].capacity = n
                             /\ KeepsElements("a")))]_vars

\* C14 witness: a reserve has just succeeded on a vector of two different
\* elements whose capacity, 3, is one that only reserve(3) gives.
C14_Witness ==
    /\ last = [op |-> "reserve", vec |-> "a", st |-> "ok"]
    /\ vecs["a"].size = 2 /\ vecs["a"].capacity = 3
    /\ Elems("a") = <<1, 2>>

\* C15: after a successful shrink_to_fit() in any reachable state,
\* capacity = size and the elements are unchanged; with size 0 and
\* capacity > 0 the storage is freed (data_ is null, capacity 0, no region
\* stays allocated), and with capacity = size the call changes nothing.
C15_ShrinkToFit ==
    [][(last' = [op |-> "shrink_to_fit", vec |-> "a", st |-> "ok"]) =>
          /\ vecs'["a"].capacity = vecs'["a"].size
          /\ KeepsElements("a")
          /\ (vecs["a"].size = 0 /\ vecs["a"].capacity > 0) =>
                (/\ vecs'["a"].data = nullptr /\ vecs'["a"].capacity = 0
                 /\ \A r \in Regions : ~heap'[r].alloc
                 /\ ~df')
          /\ vecs["a"].capacity = vecs["a"].size =>
                (/\ SameContainer("a")
                 /\ \A f \in ShrinkFails("a"), g \in OraclesFor("a") :
                        ShrinkToFit(World, "a", f, g) = Done(World))]_vars

\* C15 witness: a shrink_to_fit has just succeeded and left no storage to
\* a vector that exists and is empty.
C15_Witness ==
    /\ last = [op |-> "shrink_to_fit", vec |-> "a", st |-> "ok"]
    /\ vecs["a"].exists /\ vecs["a"].size = 0
    /\ vecs["a"].capacity = 0 /\ vecs["a"].data = nullptr

\* C16: self-assignment v = v keeps the size and the elements of v, and on
\* a valid v leaks no element and destructs none twice; when the internal
\* copy fails, v (size, capacity, storage) is exactly as before the call.
\* Under Spec, with its single vector, every copy_assign step is v = v.
C16_SelfAssignment ==
    [][(last'.op = "copy_assign" /\ last'.vec = "a") =>
          /\ last'.st = "ok" =>
                (/\ KeepsElements("a")
                 /\ ValidVec("a") => (ValidVec("a")' /\ ~leaked' /\ ~dd' /\ ~df'))
          /\ last'.st # "ok" =>
                (SameContainer("a") /\ ~leaked' /\ ~dd' /\ ~df')]_vars

\* C16 witness: v = v has just succeeded on a valid vector of two different
\* elements.
C16_Witness ==
    /\ last = [op |-> "copy_assign", vec |-> "a", st |-> "ok"]
    /\ ~vecs["b"].exists
    /\ ValidVec("a") /\ vecs["a"].size = 2
    /\ Elems("a") = <<2, 1>>

\* The regions of the heap that are allocated.
Allocated == {r \in Regions : heap[r].alloc}

\* C17: a successful copy construction of c from d yields size = capacity =
\* d's size (not d's capacity), every slot of c live and equal to d's element
\* at the same index, and d untouched; from an empty d it yields size =
\* capacity = 0 with no storage and no allocation, whatever d's capacity.
C17_CopyConstruct ==
    [][\A c \in Vecs, d \in Vecs :
          (c # d /\ last' = [op |-> "copy_construct", vec |-> c, st |-> "ok"]) =>
              /\ vecs'[c].exists
              /\ vecs'[c].size = vecs[d].size
              /\ vecs'[c].capacity = vecs[d].size
              /\ HoldsSequence(c)'
              /\ \A i \in 0..(vecs[d].size - 1) :
                    i \in Live(d) => Storage(c)'[i] = Storage(d)[i]
              /\ HoldsSequence(d) => Elems(c)' = Elems(d)
              /\ SameContainer(d)
              /\ vecs[d].size = 0 =>
                    (vecs'[c].data = nullptr /\ Allocated' = Allocated)]_vars

\* C17 witness: "b" has just been copy-constructed from "a", which holds one
\* element in storage for two: "b" has that element and capacity 1.
C17_Witness ==
    /\ last = [op |-> "copy_construct", vec |-> "b", st |-> "ok"]
    /\ vecs["a"].size = 1 /\ vecs["a"].capacity = 2
    /\ vecs["b"].size = 1 /\ vecs["b"].capacity = 1
    /\ Elems("a") = <<2>> /\ Elems("b") = <<2>>

\* C18: a successful push_back or insert on a vector with size = capacity = c
\* leaves the capacity max(1, c) doubled until it is at least size + 1, which
\* is 1 for c = 0 and 2 * c otherwise; with size < capacity it leaves the
\* capacity and the storage pointer as they were and allocates nothing.
C18_GrowthStrategy ==
    [][(last'.op \in {"push_back", "insert"} /\ last'.vec = "a" /\ last'.st = "ok") =>
          /\ vecs["a"].size = vecs["a"].capacity =>
                (/\ vecs'["a"].capacity = GrowthTarget(World, "a", 1)
                 /\ vecs'["a"].capacity =
                       (IF vecs["a"].capacity = 0 THEN 1 ELSE 2 * vecs["a"].capacity))
          /\ vecs["a"].size < vecs["a"].capacity =>
                (/\ vecs'["a"].capacity = vecs["a"].capacity
                 /\ Allocated' = Allocated
                 /\ \A e \in Values, g \in OraclesFor("a") :
                       DoPushBackAt("a", e, NoFail, g)
                           => PushBack(World, "a", e, NoFail, g).w.vecs["a"].data
                                  = vecs["a"].data
                 /\ \A pos_i \in 0..limit, e \in Values, g \in OraclesFor("a") :
                       DoInsertAt("a", pos_i, e, NoFail, g)
                           => Insert(World, "a", pos_i, e, NoFail, g).w.vecs["a"].data
                                  = vecs["a"].data)]_vars

\* C18 witness: an insert has just succeeded and left five elements in
\* storage for eight, the capacity that doubling gives from 0.
C18_Witness ==
    /\ last = [op |-> "insert", vec |-> "a", st |-> "ok"]
    /\ vecs["a"].size = 5 /\ vecs["a"].capacity = 8
    /\ Elems("a") = <<1, 2, 1, 2, 1>>

\* The operations C19 says may decrease a capacity.
ShrinkingOps == {"shrink_to_fit", "copy_assign", "swap"}

\* C19: clear(), pop_back() and erase(first, last) leave the capacity, the
\* storage pointer and the set of allocated regions as they were; clear()
\* leaves size 0 and destructs the slots [0, size), each live element once;
\* pop_back() destructs the last element only and decrements the size; and
\* no operation other than shrink_to_fit, copy assignment and swap ever
\* decreases the capacity of a container.
C19_CapacityRetained ==
    [][/\ (last'.vec = "a" /\ last'.op \in {"clear", "pop_back", "erase", "erase_pos"}) =>
             (/\ vecs'["a"].capacity = vecs["a"].capacity
              /\ Allocated' = Allocated)
       /\ last' = [op |-> "clear", vec |-> "a", st |-> "ok"] =>
             (/\ Clear(World, "a").w.vecs["a"].data = vecs["a"].data
              /\ vecs'["a"].size = 0
              /\ \A i \in DOMAIN Storage("a") :
                    Storage("a")'[i] = IF i < vecs["a"].size THEN Raw ELSE Storage("a")[i]
              /\ HoldsSequence("a") => (~dd' /\ ~leaked' /\ ~df'))
       /\ last' = [op |-> "pop_back", vec |-> "a", st |-> "ok"] =>
             (/\ PopBack(World, "a").w.vecs["a"].data = vecs["a"].data
              /\ vecs'["a"].size = vecs["a"].size - 1
              /\ \A i \in DOMAIN Storage("a") :
                    Storage("a")'[i] = IF i = vecs["a"].size - 1 THEN Raw ELSE Storage("a")[i]
              /\ (vecs["a"].size - 1) \in Live("a") => (~dd' /\ ~leaked' /\ ~df'))
       /\ last' = [op |-> "erase", vec |-> "a", st |-> "ok"] =>
             \A first_i \in 0..limit, first_after_i \in 0..limit, g \in OraclesFor("a") :
                 DoEraseAt("a", first_i, first_after_i, NoFail, g)
                     => Erase(World, "a", first_i, first_after_i, NoFail, g).w.vecs["a"].data
                            = vecs["a"].data
       /\ \A c \in Vecs :
             (vecs[c].exists /\ vecs'[c].exists /\ ~(last'.vec = c /\ last'.op \in ShrinkingOps))
                 => vecs'[c].capacity >= vecs[c].capacity]_vars

\* C19 witness: clear() has just emptied a vector that keeps storage for
\* three elements, with no live object left in it.
C19_Witness ==
    /\ last = [op |-> "clear", vec |-> "a", st |-> "ok"]
    /\ vecs["a"].size = 0 /\ vecs["a"].capacity = 3
    /\ Live("a") = {}
    /\ ~dd /\ ~leaked

====
